---- MODULE Spec2Model ----
(***************************************************************************)
(* Model of scripts/ll_extraction_2.py: the solvent-extraction evaluation  *)
(* function, the experiment declaration and the sequential trial loop that *)
(* asks the optimizer for a candidate, derives organic_composition,        *)
(* evaluates the candidate and reports the result.                         *)
(*                                                                         *)
(* Numbers.  A Python float is modelled as a rational.  The composition    *)
(* fractions are binary floats n / 2^FracBits carrying at most Precision   *)
(* significant bits, and the subtraction and the sum on them round to      *)
(* nearest, ties to even, as IEEE-754 arithmetic does.  The metrics of     *)
(* evaluate_extraction are numerators over Scale and are computed exactly: *)
(* Scale is a multiple of every denominator the formulas produce for       *)
(* integer stirring_speed, stirring_time and temperature (their declared   *)
(* bounds are integers, so the optimizer suggests integers).               *)
(***************************************************************************)
EXTENDS Integers, Sequences, FiniteSets, TLC

VARIABLES
    pc,                     \* position of the script
    i,                      \* loop variable of `for i in range(num_trials)`
    parameterization,       \* candidate returned by get_next_trial
    trial_index,            \* index returned by get_next_trial
    aqueous_composition,    \* locals of the loop body
    organic_composition,
    stirring_speed,
    stirring_time,
    temperature,
    results,                \* return value of evaluate_extraction
    ax_status,              \* optimizer: status of trial k at position k + 1
    issued,                 \* indices returned by get_next_trial, in order
    ax_data,                \* optimizer: indices with reported data, in completion order
    last_report,            \* arguments of the latest complete_trial call
    progress,               \* progress lines printed
    df                      \* data frame read after the loop

vars == <<pc, i, parameterization, trial_index, aqueous_composition,
          organic_composition, stirring_speed, stirring_time, temperature,
          results, ax_status, issued, ax_data, last_report, progress, df>>

----------------------------------------------------------------------------
\* Bounds of the model.

\* binary digits after the point of a composition fraction
FracBits == 5
\* significant bits of a float
Precision == 3
\* grid points per integer parameter in the evaluation specification
SpeedPoints == 17
TimePoints == 12
TempPoints == 13

----------------------------------------------------------------------------
\* Program constants.

num_trials == 30
ProgressEvery == 5

\* the float 1.0, in units of 2^-FracBits
One == 2 ^ FracBits
\* denominator of the metrics: 11250 * 2^FracBits, a multiple of 90000
Unit == 90000 \div 8
Scale == Unit * One

\* a local that has not been assigned yet
Unset == -1
\* ObjectiveProperties without a threshold
NoThreshold == -1

Min(a, b) == IF a < b THEN a ELSE b
Max(a, b) == IF a > b THEN a ELSE b

----------------------------------------------------------------------------
\* Floating point on the composition fractions.

RECURSIVE BitLen(_)
BitLen(n) == IF n = 0 THEN 0 ELSE 1 + BitLen(n \div 2)

\* round n (units of 2^-FracBits) to Precision significant bits, ties to even
RoundFloat(n) ==
    LET len == BitLen(n)
        q == IF len <= Precision THEN 1 ELSE 2 ^ (len - Precision)
        lo == n \div q
        r == n % q
    IN  IF 2 * r < q THEN lo * q
        ELSE IF 2 * r > q THEN (lo + 1) * q
        ELSE IF lo % 2 = 0 THEN lo * q ELSE (lo + 1) * q

FSub(x, y) == RoundFloat(x - y)
FAdd(x, y) == RoundFloat(x + y)

\* the floats of [0.0, 1.0]
Floats01 == {n \in 0..One : RoundFloat(n) = n}

\* a composition fraction as a numerator over Scale
Real(n) == n * Unit

----------------------------------------------------------------------------
\* create_experiment: the declared search space and objectives.

parameters ==
    [aqueous_composition |-> [lo |-> 0, hi |-> One],
     stirring_speed |-> [lo |-> 100, hi |-> 500],
     stirring_time |-> [lo |-> 10, hi |-> 120],
     temperature |-> [lo |-> 4, hi |-> 40]]

objectives ==
    [recovery |-> [minimize |-> FALSE, threshold |-> 50 * Scale],
     purity |-> [minimize |-> FALSE, threshold |-> 90 * Scale],
     separation |-> [minimize |-> FALSE, threshold |-> NoThreshold],
     emulsion |-> [minimize |-> TRUE, threshold |-> NoThreshold],
     total_time |-> [minimize |-> TRUE, threshold |-> 1200 * Scale]]

InBounds(c) ==
    /\ DOMAIN c = DOMAIN parameters
    /\ \A p \in DOMAIN parameters : parameters[p].lo <= c[p] /\ c[p] <= parameters[p].hi

----------------------------------------------------------------------------
\* evaluate_extraction.

\* a clamp whose upper limit was left out
ClampWithoutUpperLimit(x, lo, hi) == Max(x, lo)

\* min(max(x, lo), hi)
Clamp(x, lo, hi) == Min(Max(x, lo), hi)

\* the decimal constant k / 10 (0.1 ... 0.7)
Tenths(k) == (k * Scale) \div 10

\* R before the clamp, as a fraction
RecoveryRaw(organic, speed, temp) ==
    Tenths(3)
    + Real(organic) \div 2
    + (Tenths(2) * speed) \div 500
    + (Tenths(1) * temp) \div 40

Recovery(organic, speed, temp) ==
    Clamp(RecoveryRaw(organic, speed, temp), 0, Scale) * 100

\* P before the clamp, in percent
PurityRaw(aqueous, temp) ==
    85 * Scale + 10 * Real(aqueous) + 5 * (temp - 20) * (Scale \div 36)

Purity(aqueous, temp) ==
    Clamp(PurityRaw(aqueous, temp), 0, 100 * Scale)

\* S before the clamp, as a fraction
SeparationRaw(speed, temp) ==
    Tenths(7)
    + (Tenths(2) * (500 - speed)) \div 500
    + (Tenths(1) * (temp - 4)) \div 36

\* separation with the stirring term not inverted: 0.2 * (stirring_speed / 500)
SeparationSpeedNotInverted(speed, temp) ==
    Clamp(Tenths(7) + (Tenths(2) * speed) \div 500
            + (Tenths(1) * (temp - 4)) \div 36, 0, Scale) * 100

Separation(speed, temp) ==
    Clamp(SeparationRaw(speed, temp), 0, Scale) * 100

\* E before the clamp, as a fraction
EmulsionRaw(speed, time) ==
    Tenths(1)
    + (Tenths(6) * speed) \div 500
    + (Tenths(3) * time) \div 120

Emulsion(speed, time) ==
    Clamp(EmulsionRaw(speed, time), 0, Scale) * 100

\* T before the clamp, in seconds, from the clamped S and E in percent
TotalTimeRaw(time, S, E) ==
    (time + 50) * Scale + 1000 * (Scale - (S \div 100)) + 500 * (E \div 100)

\* total time with a base processing time of 500 s instead of 50 s
TotalTimeLongBase(time, S, E) ==
    Clamp((time + 500) * Scale + 1000 * (Scale - (S \div 100)) + 500 * (E \div 100),
          0, 2000 * Scale)

TotalTime(time, S, E) ==
    Clamp(TotalTimeRaw(time, S, E), 0, 2000 * Scale)

evaluate_extraction(aqueous, organic, speed, time, temp) ==
    LET R == Recovery(organic, speed, temp)
        P == Purity(aqueous, temp)
        S == Separation(speed, temp)
        E == Emulsion(speed, time)
        T == TotalTime(time, S, E)
    IN  [recovery |-> R, purity |-> P, separation |-> S, emulsion |-> E,
         total_time |-> T]

----------------------------------------------------------------------------
\* The optimizer's suggestions.

\* organic_composition taken over from the aqueous fraction, not complemented
DeriveOrganicNotComplemented(aqueous) == aqueous

\* organic_composition = 1.0 - aqueous_composition
DeriveOrganic(aqueous) == FSub(One, aqueous)

\* k evenly spread integers of lo..hi, both ends included
Grid(lo, hi, k) == {lo + ((hi - lo) * j) \div (k - 1) : j \in 0..(k - 1)}

SpeedGrid == Grid(parameters.stirring_speed.lo, parameters.stirring_speed.hi, SpeedPoints) \cup {300}
TimeGrid == Grid(parameters.stirring_time.lo, parameters.stirring_time.hi, TimePoints) \cup {60}
TempGrid == Grid(parameters.temperature.lo, parameters.temperature.hi, TempPoints) \cup {20}

\* candidates of the evaluation specification
Candidates ==
    [aqueous_composition : Floats01, stirring_speed : SpeedGrid,
     stirring_time : TimeGrid, temperature : TempGrid]

\* candidates the optimizer hands out in the run loop
Suggestions ==
    [aqueous_composition : Floats01,
     stirring_speed : {parameters.stirring_speed.hi},
     stirring_time : {parameters.stirring_time.hi},
     temperature : {parameters.temperature.lo}]

NoParameterization ==
    [aqueous_composition |-> Unset, stirring_speed |-> Unset,
     stirring_time |-> Unset, temperature |-> Unset]

NoResults ==
    [recovery |-> Unset, purity |-> Unset, separation |-> Unset,
     emulsion |-> Unset, total_time |-> Unset]

NoReport == [trial_index |-> Unset, raw_data |-> NoResults]

----------------------------------------------------------------------------
\* The script.

\* state before the loop: ax_client created, experiment declared
Init ==
    /\ pc = "for"
    /\ i = Unset
    /\ parameterization = NoParameterization
    /\ trial_index = Unset
    /\ aqueous_composition = Unset
    /\ organic_composition = Unset
    /\ stirring_speed = Unset
    /\ stirring_time = Unset
    /\ temperature = Unset
    /\ results = NoResults
    /\ ax_status = <<>>
    /\ issued = <<>>
    /\ ax_data = <<>>
    /\ last_report = NoReport
    /\ progress = <<>>
    /\ df = <<>>

\* a range one item too long, and one item too short
InRangeInclusive(k, n) == k <= n
InRangeShort(k, n) == k < n - 1

\* range(n) still has the item k
InRange(k, n) == k < n

\* for i in range(num_trials): the next item, or the end of the loop
ForNext ==
    /\ pc = "for"
    /\ IF InRange(i + 1, num_trials)
         THEN i' = i + 1 /\ pc' = "get_next_trial"
         ELSE i' = i /\ pc' = "get_results"
    /\ UNCHANGED <<parameterization, trial_index, aqueous_composition,
                   organic_composition, stirring_speed, stirring_time,
                   temperature, results, ax_status, issued, ax_data,
                   last_report, progress, df>>

\* get_next_trial that already adds the new trial to the reported data
GetNextTrialRecordsRow ==
    /\ pc = "get_next_trial"
    /\ \E c \in Suggestions : parameterization' = c
    /\ trial_index' = Len(ax_status)
    /\ ax_status' = Append(ax_status, "RUNNING")
    /\ issued' = Append(issued, Len(ax_status))
    /\ ax_data' = Append(ax_data, Len(ax_status))
    /\ pc' = "extract"
    /\ UNCHANGED <<i, aqueous_composition, organic_composition, stirring_speed,
                   stirring_time, temperature, results, last_report,
                   progress, df>>

\* parameterization, trial_index = ax_client.get_next_trial()
GetNextTrial ==
    /\ pc = "get_next_trial"
    /\ \E c \in Suggestions : parameterization' = c
    /\ trial_index' = Len(ax_status)
    /\ ax_status' = Append(ax_status, "RUNNING")
    /\ issued' = Append(issued, Len(ax_status))
    /\ pc' = "extract"
    /\ UNCHANGED <<i, aqueous_composition, organic_composition, stirring_speed,
                   stirring_time, temperature, results, ax_data, last_report,
                   progress, df>>

\* the extraction with the assignment of temperature left out
ExtractParametersStaleTemperature ==
    /\ pc = "extract"
    /\ aqueous_composition' = parameterization.aqueous_composition
    /\ organic_composition' = DeriveOrganic(parameterization.aqueous_composition)
    /\ stirring_speed' = parameterization.stirring_speed
    /\ stirring_time' = parameterization.stirring_time
    /\ pc' = "evaluate"
    /\ UNCHANGED <<i, parameterization, trial_index, temperature, results,
                   ax_status, issued, ax_data, last_report, progress, df>>

\* the five assignments that read the candidate and derive organic_composition
ExtractParameters ==
    /\ pc = "extract"
    /\ aqueous_composition' = parameterization.aqueous_composition
    /\ organic_composition' = DeriveOrganic(parameterization.aqueous_composition)
    /\ stirring_speed' = parameterization.stirring_speed
    /\ stirring_time' = parameterization.stirring_time
    /\ temperature' = parameterization.temperature
    /\ pc' = "evaluate"
    /\ UNCHANGED <<i, parameterization, trial_index, results, ax_status, issued,
                   ax_data, last_report, progress, df>>

\* results = evaluate_extraction(...)
RunEvaluation ==
    /\ pc = "evaluate"
    /\ results' = evaluate_extraction(aqueous_composition, organic_composition,
                                      stirring_speed, stirring_time, temperature)
    /\ pc' = "complete_trial"
    /\ UNCHANGED <<i, parameterization, trial_index, aqueous_composition,
                   organic_composition, stirring_speed, stirring_time,
                   temperature, ax_status, issued, ax_data, last_report,
                   progress, df>>

\* the loop body without its complete_trial call
CompleteTrialNotCalled ==
    /\ pc = "complete_trial"
    /\ progress' = IF (i + 1) % ProgressEvery = 0 THEN Append(progress, i + 1)
                   ELSE progress
    /\ pc' = "for"
    /\ UNCHANGED <<i, parameterization, trial_index, aqueous_composition,
                   organic_composition, stirring_speed, stirring_time,
                   temperature, results, ax_status, issued, ax_data,
                   last_report, df>>

\* ax_client.complete_trial(trial_index=trial_index, raw_data=results), then
\* the progress line every fifth trial
CompleteTrial ==
    /\ pc = "complete_trial"
    /\ ax_status[trial_index + 1] = "RUNNING"
    /\ ax_status' = [ax_status EXCEPT ![trial_index + 1] = "COMPLETED"]
    /\ ax_data' = Append(ax_data, trial_index)
    /\ last_report' = [trial_index |-> trial_index, raw_data |-> results]
    /\ progress' = IF (i + 1) % ProgressEvery = 0 THEN Append(progress, i + 1)
                   ELSE progress
    /\ pc' = "for"
    /\ UNCHANGED <<i, parameterization, trial_index, aqueous_composition,
                   organic_composition, stirring_speed, stirring_time,
                   temperature, results, issued, df>>

\* df = ax_client.get_trials_data_frame() and the reports that follow
GetResults ==
    /\ pc = "get_results"
    /\ df' = ax_data
    /\ pc' = "done"
    /\ UNCHANGED <<i, parameterization, trial_index, aqueous_composition,
                   organic_composition, stirring_speed, stirring_time,
                   temperature, results, ax_status, issued, ax_data,
                   last_report, progress>>

Next ==
    \/ ForNext
    \/ GetNextTrial
    \/ ExtractParameters
    \/ RunEvaluation
    \/ CompleteTrial
    \/ GetResults

Spec == Init /\ [][Next]_vars

\* the script is one thread that runs to its end
FairSpec == Spec /\ WF_vars(Next)

\* evaluation of one candidate: the state after the first get_next_trial, for
\* every candidate of the grid
InitEval ==
    /\ pc = "extract"
    /\ i = 0
    /\ parameterization \in Candidates
    /\ trial_index = 0
    /\ aqueous_composition = Unset
    /\ organic_composition = Unset
    /\ stirring_speed = Unset
    /\ stirring_time = Unset
    /\ temperature = Unset
    /\ results = NoResults
    /\ ax_status = <<"RUNNING">>
    /\ issued = <<0>>
    /\ ax_data = <<>>
    /\ last_report = NoReport
    /\ progress = <<>>
    /\ df = <<>>

NextEval ==
    \/ ExtractParameters
    \/ RunEvaluation

SpecEval == InitEval /\ [][NextEval]_vars

----------------------------------------------------------------------------
\* Properties.

Range(s) == {s[k] : k \in 1..Len(s)}
Running == {k \in 1..Len(ax_status) : ax_status[k] = "RUNNING"}
Completed == {k \in 1..Len(ax_status) : ax_status[k] = "COMPLETED"}
LoopExited == pc \in {"get_results", "done"}

\* C1: organic_composition is no declared parameter, the candidate carries only
\* declared parameters, and the values passed to every evaluation are the
\* trial's own aqueous fraction and its complement 1.0 - aqueous, whose float
\* sum is 1.0.
C1_CompositionConstraint ==
    /\ "organic_composition" \notin DOMAIN parameters
    /\ DOMAIN parameterization = DOMAIN parameters
    /\ pc \in {"evaluate", "complete_trial"} =>
        /\ aqueous_composition = parameterization.aqueous_composition
        /\ aqueous_composition \in Floats01
        /\ organic_composition = FSub(One, aqueous_composition)
        /\ FAdd(aqueous_composition, organic_composition) = One

\* a later trial is about to be evaluated with a complement that had to be rounded
C1_Witness ==
    /\ pc = "evaluate"
    /\ i > 0
    /\ organic_composition # One - aqueous_composition
    /\ FAdd(aqueous_composition, organic_composition) = One

\* C2: for every in-bounds candidate evaluate_extraction returns exactly the
\* five declared objectives, the four percentages within [0, 100] and
\* total_time within [0, 2000]; a raw recovery above 1.0 saturates at exactly 100.
C2_MetricsWithinRanges ==
    pc = "complete_trial" =>
        /\ InBounds(parameterization)
        /\ DOMAIN results = DOMAIN objectives
        /\ \A m \in {"recovery", "purity", "separation", "emulsion"} :
              0 <= results[m] /\ results[m] <= 100 * Scale
        /\ 0 <= results.total_time /\ results.total_time <= 2000 * Scale
        /\ RecoveryRaw(organic_composition, stirring_speed, temperature) > Scale
              => results.recovery = 100 * Scale

\* stirring_speed at its upper bound drives the raw recovery above 1.0
C2_Witness ==
    /\ pc = "complete_trial"
    /\ stirring_speed = parameters.stirring_speed.hi
    /\ RecoveryRaw(organic_composition, stirring_speed, temperature) > Scale
    /\ results.recovery = 100 * Scale

\* the inputs of the end-to-end scenario: 0.5, 0.5, 300, 60, 20
ScenarioEvaluated ==
    /\ pc = "complete_trial"
    /\ 2 * aqueous_composition = One
    /\ 2 * organic_composition = One
    /\ stirring_speed = 300
    /\ stirring_time = 60
    /\ temperature = 20

\* x in hundredths, rounded to the nearest
Hundredths(x) == (x + Scale \div 200) \div (Scale \div 100)

\* C3 as stated: the scenario yields recovery 68.0, purity 90.0, separation 78.44.
C3_AsStated ==
    ScenarioEvaluated =>
        /\ results.recovery = 68 * Scale
        /\ results.purity = 90 * Scale
        /\ Hundredths(results.separation) = 7844

\* C3 amended: the scenario yields recovery 72.0, purity 90.0 and separation
\* 82.44 (two decimals).
C3_ScenarioValues ==
    ScenarioEvaluated =>
        /\ results.recovery = 72 * Scale
        /\ results.purity = 90 * Scale
        /\ Hundredths(results.separation) = 8244

C3_Witness ==
    /\ ScenarioEvaluated
    /\ results.recovery = 72 * Scale

\* C4: at most one trial is suggested but unreported, and a candidate is only
\* requested when every earlier trial has been reported.
C4_StrictlySequential ==
    /\ Cardinality(Running) <= 1
    /\ pc = "get_next_trial" => Running = {}
    /\ Running # {} => Running = {Len(ax_status)}

\* a later trial is in flight, all earlier ones reported
C4_Witness ==
    /\ Running = {3}
    /\ Completed = {1, 2}

\* C5: the indices returned by get_next_trial and those passed to
\* complete_trial are 0, 1, 2, ... in order, never more than num_trials, and
\* exactly 0..num_trials-1 once the loop has ended.
C5_TrialIndices ==
    /\ \A k \in 1..Len(issued) : issued[k] = k - 1
    /\ \A k \in 1..Len(ax_data) : ax_data[k] = k - 1
    /\ Len(issued) <= num_trials
    /\ LoopExited =>
        /\ Range(issued) = 0..(num_trials - 1)
        /\ Range(ax_data) = 0..(num_trials - 1)

C5_Witness ==
    /\ pc = "done"
    /\ Len(issued) = num_trials
    /\ issued[num_trials] = num_trials - 1

\* C6: the run ends: the loop is eventually left for the results phase, with
\* exactly num_trials trials, all completed, and never a further candidate.
C6_RunTerminates ==
    /\ [](Len(ax_status) <= num_trials)
    /\ [](LoopExited => Cardinality(Completed) = num_trials /\ Running = {})
    /\ <>(pc = "done" /\ Cardinality(Completed) = num_trials)

C6_Witness ==
    /\ pc = "get_results"
    /\ Cardinality(Completed) = num_trials
    /\ Len(issued) = num_trials

\* C8: the reported history holds only completed trials, in completion order;
\* a trial in flight is not in it; between trials it holds exactly the trials
\* suggested so far; the data frame read at the end is that history.
C8_HistoryOnlyCompleted ==
    /\ \A k \in 1..Len(ax_data) : ax_status[ax_data[k] + 1] = "COMPLETED"
    /\ \A k \in Running : (k - 1) \notin Range(ax_data)
    /\ ax_data = SubSeq(issued, 1, Len(ax_data))
    /\ pc = "for" => ax_data = issued
    /\ pc = "done" => df = issued

\* a trial has been suggested and is not yet in the history of two
C8_Witness ==
    /\ pc \in {"extract", "evaluate", "complete_trial"}
    /\ Len(ax_data) = 2
    /\ Len(issued) = 3
    /\ trial_index \notin Range(ax_data)

\* C9: each complete_trial call carries the index of the latest
\* get_next_trial and the results evaluated from that call's candidate with
\* its own derived organic fraction; each index is completed once.
C9_ResultAttributed ==
    /\ Len(ax_data) <= Len(issued)
    /\ Len(issued) <= Len(ax_data) + 1
    /\ \A j, k \in 1..Len(ax_data) : ax_data[j] = ax_data[k] => j = k
    /\ (pc = "for" /\ i >= 0) =>
        /\ Len(ax_data) = Len(issued)
        /\ last_report.trial_index = issued[Len(issued)]
        /\ ax_data[Len(ax_data)] = last_report.trial_index
        /\ last_report.raw_data =
              evaluate_extraction(
                  parameterization.aqueous_composition,
                  FSub(One, parameterization.aqueous_composition),
                  parameterization.stirring_speed,
                  parameterization.stirring_time,
                  parameterization.temperature)

\* the second trial has just been reported
C9_Witness ==
    /\ pc = "for"
    /\ Len(ax_data) = 2
    /\ last_report.trial_index = 1
    /\ last_report.raw_data = results

\* C10: for every in-bounds candidate total_time is at most 970 s, hence below
\* its threshold of 1200, and neither the total_time clamp nor the purity
\* clamp changes the value.
C10_TimeAndPurityNeverSaturate ==
    pc = "complete_trial" =>
        /\ results.total_time <= 970 * Scale
        /\ results.total_time <= objectives.total_time.threshold
        /\ results.total_time =
              TotalTimeRaw(stirring_time, results.separation, results.emulsion)
        /\ results.total_time < 2000 * Scale
        /\ results.purity = PurityRaw(aqueous_composition, temperature)
        /\ results.purity > 0 /\ results.purity < 100 * Scale

\* the slowest candidate reaches exactly 970 s
C10_Witness ==
    /\ pc = "complete_trial"
    /\ results.total_time = 970 * Scale

====
